---- MODULE Spec2Model ----
(***************************************************************************)
(* ErlangRT: the global atom table (emulator/atom.rs), the load-time       *)
(* friendly term (term/fterm.rs) and the data-moving opcodes               *)
(* (beam/opcodes/op_data.rs).                                              *)
(***************************************************************************)
EXTENDS Integers, Sequences, FiniteSets, TLC

\* ------------------------------------------------------------------------
\* Bounds of the model
\* ------------------------------------------------------------------------

\* Number of threads calling into the atom table.
NumProcs == 2
\* Number of distinct atom texts the callers draw from.
NumTexts == 2

TextNames == <<"a", "b", "c", "d", "e", "f">>
Texts == {TextNames[i] : i \in 1..NumTexts}
Procs == 1..NumProcs

\* The holder of a Mutex that is not locked.
NoProc == 0
\* The arguments and locals of a thread that is in no call.
NoText == ""

\* ------------------------------------------------------------------------
\* term::lterm::LTerm, the packed runtime term (constructors and accessors)
\* ------------------------------------------------------------------------

make_atom(i) == [tag |-> "atom", val |-> i]
make_xreg(i) == [tag |-> "xreg", val |-> i]
make_yreg(i) == [tag |-> "yreg", val |-> i]
make_fpreg(i) == [tag |-> "fpreg", val |-> i]
make_label(i) == [tag |-> "label", val |-> i]
make_small_i(i) == [tag |-> "small", val |-> i]
make_small_u(i) == [tag |-> "small", val |-> i]
make_box(p) == [tag |-> "box", val |-> p]
nil == [tag |-> "nil", val |-> 0]
is_atom(t) == t.tag = "atom"
atom_index(t) == t.val

\* ------------------------------------------------------------------------
\* emulator/atom.rs: AtomStorage and its two operations
\* ------------------------------------------------------------------------

VARIABLES
  atoms,        \* ATOMS.atoms: BTreeMap<String, Word>, a function Text -> index
  atoms_r,      \* ATOMS.atoms_r: Vec<String>
  lock_atoms,   \* holder of the Mutex around atoms (NoProc when free)
  lock_atoms_r, \* holder of the Mutex around atoms_r
  poisoned,     \* which of the two mutexes a panicking holder has poisoned
  pc,           \* per thread: where it is inside from_str / to_str; a call
                \* that panics unwinds, and its thread is idle again
  val,          \* per thread: the `val` argument of from_str
  a,            \* per thread: the `a` argument of to_str
  index,        \* per thread: the local `index` of from_str
  fs_results,   \* every <<text, LTerm>> a from_str call has returned
  ts_results,   \* every <<LTerm, text>> a to_str call has answered
  order         \* the texts in the order they entered the forward map

VARIABLES
  ft,           \* the FTerm the loader is holding
  atom_tab,     \* the loader's atom_tab: &Vec<LTerm>
  ft_op,        \* the FTerm operation that ran last
  word_in,      \* the argument of the last from_word
  lterm_out,    \* what the last to_lterm produced
  resolve_out,  \* what the last maybe_resolve_atom_ returned
  n_resolve     \* how many times ft has gone through maybe_resolve_atom_

VARIABLES
  ip,           \* Context: the operand cursor
  regs,         \* Context: the X registers
  stack,        \* curr_p.heap: the Y stack slots
  fault,        \* why the running process was halted, "none" while it runs
  result,       \* the DispatchResult the last handler returned
  last,         \* the instruction the last dispatch decoded
  arity_map     \* gen_op: the operand count the loader decodes per opcode

fterm_vars == <<ft, atom_tab, ft_op, word_in, lterm_out, resolve_out, n_resolve>>
disp_vars == <<ip, regs, stack, fault, result, last, arity_map>>
other_than_atoms == <<fterm_vars, disp_vars>>

atom_vars == <<atoms, atoms_r, lock_atoms, lock_atoms_r, poisoned, pc, val, a,
               index, fs_results, ts_results, order>>

\* The arguments to_str is called with: every atom a from_str may ever return,
\* one atom index past them, and a term that is no atom.
ToStrArgs == {make_atom(i) : i \in 0..NumTexts} \cup {nil}

AtomInit ==
  /\ atoms = <<>>
  /\ atoms_r = <<>>
  /\ lock_atoms = NoProc
  /\ lock_atoms_r = NoProc
  /\ poisoned = {}
  /\ pc = [p \in Procs |-> "idle"]
  /\ val = [p \in Procs |-> NoText]
  /\ a = [p \in Procs |-> nil]
  /\ index = [p \in Procs |-> 0]
  /\ fs_results = {}
  /\ ts_results = {}
  /\ order = <<>>

\* Mutation: the lookup never finds the key.
contains_key_never(m, k) == FALSE

\* atoms_.contains_key(val)
contains_key(m, k) == k \in DOMAIN m

\* Mutation: the first index handed out is 1.
NextIndexOneBased(r) == Len(r) + 1

\* let index = atoms_r_.len();
NextIndex(r) == Len(r)

\* atoms_.entry(val1).or_insert(index): keeps a value the key already has.
or_insert(m, k, v) == IF k \in DOMAIN m THEN m ELSE (k :> v) @@ m

\* Mutation: the text goes to the front of the vector.
push_front(r, s) == <<s>> \o r

\* atoms_r_.push(val2)
push(r, s) == Append(r, s)

\* atoms_r_[a.atom_index()]: the vector is 0-based.
vec_at(r, i) == r[i + 1]

\* A thread enters from_str(val).
CallFromStr(p) ==
  /\ pc[p] = "idle"
  /\ \E t \in Texts : val' = [val EXCEPT ![p] = t]
  /\ pc' = [pc EXCEPT ![p] = "fs_lock"]
  /\ UNCHANGED other_than_atoms
  /\ UNCHANGED <<atoms, atoms_r, lock_atoms, lock_atoms_r, poisoned, a, index,
                 fs_results, ts_results, order>>

\* let mut atoms_ = ATOMS.atoms.lock().unwrap();
FsLock(p) ==
  /\ pc[p] = "fs_lock"
  /\ lock_atoms = NoProc
  /\ "atoms" \notin poisoned
  /\ lock_atoms' = p
  /\ pc' = [pc EXCEPT ![p] = "fs_check"]
  /\ UNCHANGED other_than_atoms
  /\ UNCHANGED <<atoms, atoms_r, lock_atoms_r, poisoned, val, a, index,
                 fs_results, ts_results, order>>

\* lock() on a poisoned mutex is an Err, and unwrap() panics on it.
FsLockPoisoned(p) ==
  /\ pc[p] = "fs_lock"
  /\ lock_atoms = NoProc
  /\ "atoms" \in poisoned
  /\ pc' = [pc EXCEPT ![p] = "idle"]
  /\ UNCHANGED other_than_atoms
  /\ val' = [val EXCEPT ![p] = NoText]
  /\ UNCHANGED <<atoms, atoms_r, lock_atoms, lock_atoms_r, poisoned, a,
                 index, fs_results, ts_results, order>>

\* if atoms_.contains_key(val) { return LTerm::make_atom(atoms_[val]); }
\* The guard atoms_ is dropped on return.
FsFound(p) ==
  /\ pc[p] = "fs_check"
  /\ contains_key(atoms, val[p])
  /\ fs_results' = fs_results \cup {<<val[p], make_atom(atoms[val[p]])>>}
  /\ lock_atoms' = NoProc
  /\ pc' = [pc EXCEPT ![p] = "idle"]
  /\ UNCHANGED other_than_atoms
  /\ val' = [val EXCEPT ![p] = NoText]
  /\ UNCHANGED <<atoms, atoms_r, lock_atoms_r, poisoned, a, index,
                 ts_results, order>>

\* Mutation: the forward map's guard is dropped once the lookup has missed.
FsNotFoundUnlocked(p) ==
  /\ pc[p] = "fs_check"
  /\ ~contains_key(atoms, val[p])
  /\ lock_atoms' = NoProc
  /\ pc' = [pc EXCEPT ![p] = "fs_lock_r"]
  /\ UNCHANGED other_than_atoms
  /\ UNCHANGED <<atoms, atoms_r, lock_atoms_r, poisoned, val, a,
                 index, fs_results, ts_results, order>>

FsNotFound(p) ==
  /\ pc[p] = "fs_check"
  /\ ~contains_key(atoms, val[p])
  /\ pc' = [pc EXCEPT ![p] = "fs_lock_r"]
  /\ UNCHANGED other_than_atoms
  /\ UNCHANGED <<atoms, atoms_r, lock_atoms, lock_atoms_r, poisoned, val, a,
                 index, fs_results, ts_results, order>>

\* let mut atoms_r_ = ATOMS.atoms_r.lock().unwrap();
FsLockR(p) ==
  /\ pc[p] = "fs_lock_r"
  /\ lock_atoms_r = NoProc
  /\ "atoms_r" \notin poisoned
  /\ lock_atoms_r' = p
  /\ pc' = [pc EXCEPT ![p] = "fs_index"]
  /\ UNCHANGED other_than_atoms
  /\ UNCHANGED <<atoms, atoms_r, lock_atoms, poisoned, val, a, index,
                 fs_results, ts_results, order>>

\* The unwrap() panics while the guard atoms_ is held: unwinding drops the
\* guard, which releases and poisons the forward map's mutex.
FsLockRPoisoned(p) ==
  /\ pc[p] = "fs_lock_r"
  /\ lock_atoms_r = NoProc
  /\ "atoms_r" \in poisoned
  /\ lock_atoms' = NoProc
  /\ poisoned' = poisoned \cup {"atoms"}
  /\ pc' = [pc EXCEPT ![p] = "idle"]
  /\ UNCHANGED other_than_atoms
  /\ val' = [val EXCEPT ![p] = NoText]
  /\ UNCHANGED <<atoms, atoms_r, lock_atoms_r, a, index, fs_results,
                 ts_results, order>>

\* let index = atoms_r_.len();
FsIndex(p) ==
  /\ pc[p] = "fs_index"
  /\ index' = [index EXCEPT ![p] = NextIndex(atoms_r)]
  /\ pc' = [pc EXCEPT ![p] = "fs_insert"]
  /\ UNCHANGED other_than_atoms
  /\ UNCHANGED <<atoms, atoms_r, lock_atoms, lock_atoms_r, poisoned, val, a,
                 fs_results, ts_results, order>>

\* atoms_.entry(val1).or_insert(index);
FsInsert(p) ==
  /\ pc[p] = "fs_insert"
  /\ atoms' = or_insert(atoms, val[p], index[p])
  /\ order' = IF contains_key(atoms, val[p]) THEN order ELSE Append(order, val[p])
  /\ pc' = [pc EXCEPT ![p] = "fs_push"]
  /\ UNCHANGED other_than_atoms
  /\ UNCHANGED <<atoms_r, lock_atoms, lock_atoms_r, poisoned, val, a, index,
                 fs_results, ts_results>>

\* atoms_r_.push(val2);
FsPush(p) ==
  /\ pc[p] = "fs_push"
  /\ atoms_r' = push(atoms_r, val[p])
  /\ pc' = [pc EXCEPT ![p] = "fs_unlock_r"]
  /\ UNCHANGED other_than_atoms
  /\ UNCHANGED <<atoms, lock_atoms, lock_atoms_r, poisoned, val, a, index,
                 fs_results, ts_results, order>>

\* Mutation: the reverse map's guard is never dropped.
FsUnlockRLeaked(p) ==
  /\ pc[p] = "fs_unlock_r"
  /\ pc' = [pc EXCEPT ![p] = "fs_return"]
  /\ UNCHANGED other_than_atoms
  /\ UNCHANGED <<atoms, atoms_r, lock_atoms, lock_atoms_r, poisoned, val, a,
                 index, fs_results, ts_results, order>>

\* End of scope: the guards drop in reverse order of declaration, atoms_r_
\* first.
FsUnlockR(p) ==
  /\ pc[p] = "fs_unlock_r"
  /\ lock_atoms_r' = NoProc
  /\ pc' = [pc EXCEPT ![p] = "fs_return"]
  /\ UNCHANGED other_than_atoms
  /\ UNCHANGED <<atoms, atoms_r, lock_atoms, poisoned, val, a, index,
                 fs_results, ts_results, order>>

\* LTerm::make_atom(index), and the guard atoms_ drops.
FsReturn(p) ==
  /\ pc[p] = "fs_return"
  /\ fs_results' = fs_results \cup {<<val[p], make_atom(index[p])>>}
  /\ lock_atoms' = NoProc
  /\ pc' = [pc EXCEPT ![p] = "idle"]
  /\ UNCHANGED other_than_atoms
  /\ val' = [val EXCEPT ![p] = NoText]
  /\ index' = [index EXCEPT ![p] = 0]
  /\ UNCHANGED <<atoms, atoms_r, lock_atoms_r, poisoned, a, ts_results, order>>

\* A thread enters to_str(a); assert!(a.is_atom()) passes.
CallToStr(p) ==
  /\ pc[p] = "idle"
  /\ \E t \in ToStrArgs : is_atom(t) /\ a' = [a EXCEPT ![p] = t]
  /\ pc' = [pc EXCEPT ![p] = "ts_lock"]
  /\ UNCHANGED other_than_atoms
  /\ UNCHANGED <<atoms, atoms_r, lock_atoms, lock_atoms_r, poisoned, val, index,
                 fs_results, ts_results, order>>

\* A thread enters to_str(a) with an atom some from_str call has returned.
CallToStrInterned(p) ==
  /\ pc[p] = "idle"
  /\ \E r \in fs_results : a' = [a EXCEPT ![p] = r[2]]
  /\ pc' = [pc EXCEPT ![p] = "ts_lock"]
  /\ UNCHANGED other_than_atoms
  /\ UNCHANGED <<atoms, atoms_r, lock_atoms, lock_atoms_r, poisoned, val, index,
                 fs_results, ts_results, order>>

\* assert!(a.is_atom()) fails: the thread panics holding no lock.
CallToStrNotAtom(p) ==
  /\ pc[p] = "idle"
  /\ \E t \in ToStrArgs : ~is_atom(t)
  /\ pc' = [pc EXCEPT ![p] = "idle"]
  /\ UNCHANGED other_than_atoms
  /\ UNCHANGED <<atoms, atoms_r, lock_atoms, lock_atoms_r, poisoned, val, a,
                 index, fs_results, ts_results, order>>

\* let atoms_r_ = ATOMS.atoms_r.lock().unwrap();
TsLock(p) ==
  /\ pc[p] = "ts_lock"
  /\ lock_atoms_r = NoProc
  /\ "atoms_r" \notin poisoned
  /\ lock_atoms_r' = p
  /\ pc' = [pc EXCEPT ![p] = "ts_read"]
  /\ UNCHANGED other_than_atoms
  /\ UNCHANGED <<atoms, atoms_r, lock_atoms, poisoned, val, a, index,
                 fs_results, ts_results, order>>

TsLockPoisoned(p) ==
  /\ pc[p] = "ts_lock"
  /\ lock_atoms_r = NoProc
  /\ "atoms_r" \in poisoned
  /\ pc' = [pc EXCEPT ![p] = "idle"]
  /\ UNCHANGED other_than_atoms
  /\ a' = [a EXCEPT ![p] = nil]
  /\ UNCHANGED <<atoms, atoms_r, lock_atoms, lock_atoms_r, poisoned, val,
                 index, fs_results, ts_results, order>>

\* atoms_r_[a.atom_index()].to_string(), and the guard drops.
TsRead(p) ==
  /\ pc[p] = "ts_read"
  /\ atom_index(a[p]) < Len(atoms_r)
  /\ ts_results' = ts_results \cup {<<a[p], vec_at(atoms_r, atom_index(a[p]))>>}
  /\ lock_atoms_r' = NoProc
  /\ pc' = [pc EXCEPT ![p] = "idle"]
  /\ UNCHANGED other_than_atoms
  /\ a' = [a EXCEPT ![p] = nil]
  /\ UNCHANGED <<atoms, atoms_r, lock_atoms, poisoned, val, index,
                 fs_results, order>>

\* The index is past the end of the vector: the indexing panics while the
\* guard is held, which releases and poisons the reverse map's mutex.
TsReadOutOfRange(p) ==
  /\ pc[p] = "ts_read"
  /\ atom_index(a[p]) >= Len(atoms_r)
  /\ lock_atoms_r' = NoProc
  /\ poisoned' = poisoned \cup {"atoms_r"}
  /\ pc' = [pc EXCEPT ![p] = "idle"]
  /\ UNCHANGED other_than_atoms
  /\ a' = [a EXCEPT ![p] = nil]
  /\ UNCHANGED <<atoms, atoms_r, lock_atoms, val, index, fs_results,
                 ts_results, order>>

from_str(p) ==
  \/ CallFromStr(p)
  \/ FsLock(p)
  \/ FsLockPoisoned(p)
  \/ FsFound(p)
  \/ FsNotFound(p)
  \/ FsLockR(p)
  \/ FsLockRPoisoned(p)
  \/ FsIndex(p)
  \/ FsInsert(p)
  \/ FsPush(p)
  \/ FsUnlockR(p)
  \/ FsReturn(p)

to_str(p) ==
  \/ CallToStr(p)
  \/ CallToStrNotAtom(p)
  \/ TsLock(p)
  \/ TsLockPoisoned(p)
  \/ TsRead(p)
  \/ TsReadOutOfRange(p)

AtomNext == \E p \in Procs : from_str(p) \/ to_str(p)

\* The calls that meet their preconditions: no mutex is ever poisoned and
\* to_str is given atoms that from_str returned.
LiveNext ==
  \E p \in Procs :
    \/ CallFromStr(p)
    \/ FsLock(p)
    \/ FsFound(p)
    \/ FsNotFound(p)
    \/ FsLockR(p)
    \/ FsIndex(p)
    \/ FsInsert(p)
    \/ FsPush(p)
    \/ FsUnlockR(p)
    \/ FsReturn(p)
    \/ CallToStrInterned(p)
    \/ TsLock(p)
    \/ TsRead(p)

\* The steps of a thread that is inside a call: taking a mutex it waits for,
\* or running on.
InCall(p) ==
  \/ FsLock(p)
  \/ FsLockR(p)
  \/ TsLock(p)
  \/ FsFound(p)
  \/ FsNotFound(p)
  \/ FsIndex(p)
  \/ FsInsert(p)
  \/ FsPush(p)
  \/ FsUnlockR(p)
  \/ FsReturn(p)
  \/ TsRead(p)

\* ------------------------------------------------------------------------
\* term/fterm.rs: the friendly term FTerm
\* ------------------------------------------------------------------------

\* Width of a machine word in the model (Word is usize in the code).
WordBits == 6
\* Largest payload of the enumerated FTerm leaves and atom table entries.
MaxPayload == 1
\* Longest ExtList_ enumerated.
MaxLen == 2
\* maybe_resolve_atom_ passes counted on one term.
MaxResolves == 2

WordLimit == 2 ^ WordBits
\* The loader was given a term, not a word.
NoWord == 0 - 1
Words == 0..(WordLimit - 1)

\* defs::MAX_UNSIG_SMALL: a small integer has the word size less 4 bits.
MAX_UNSIG_SMALL == 2 ^ (WordBits - 4)

\* `w as SWord`: the same bits read as a signed word.
as_SWord(w) == IF w >= 2 ^ (WordBits - 1) THEN w - WordLimit ELSE w

\* BigInt::from_usize(w).unwrap(): the arbitrary-precision integer w.
from_usize(w) == w

\* The variants of enum FTerm that carry one word.
WordTags == {"Atom", "SmallInt", "BigInt", "Float", "X_", "Y_", "FP_",
             "Label_", "Atom_", "Int_", "Lit_"}
\* The variants that carry nothing.
UnitTags == {"Nil", "Tuple0", "AllocList_"}

FWord(tag, w) == [tag |-> tag, val |-> w]
FUnit(tag) == [tag |-> tag]
FList(tag, es) == [tag |-> tag, elems |-> es]

FTermLeaves ==
  {FWord(g, w) : g \in WordTags, w \in 0..MaxPayload} \cup {FUnit(g) : g \in UnitTags}

SeqsUpTo(S, n) == UNION {[1..k -> S] : k \in 0..n}

\* A few boxed containers, and jump tables nested in a jump table.
FTermBoxes ==
  {FList("Tuple", <<FWord("Atom_", 0)>>),
   FList("Cons", <<FWord("Atom_", 0), FUnit("Nil")>>),
   FList("Cons", <<FWord("SmallInt", 1), FUnit("Nil")>>)}
FTermInner ==
  {FList("ExtList_", es) : es \in SeqsUpTo({FWord("Atom_", 0), FWord("Label_", 1)}, 1)}

\* The terms the loader is given.
FTerms ==
  FTermLeaves \cup FTermBoxes
    \cup {FList("ExtList_", es) : es \in SeqsUpTo(FTermLeaves \cup FTermInner, MaxLen)}

\* The loader's atom tables: runtime atoms, indexed by load-time atom index.
AtomTabs ==
  {[i \in 1..k |-> make_atom(i - 1 + d)] :
     k \in MaxPayload..(MaxPayload + 1), d \in 0..1}

\* What a panic!() leaves in place of an LTerm.
PanicLTerm == [tag |-> "panic", val |-> 0]

\* Option<FTerm>, and the unwinding of a panic.
None == [opt |-> "None"]
Some(t) == [opt |-> "Some", val |-> t]
Panic == [opt |-> "Panic"]

\* Mutation: the boundary word itself still counts as small.
from_word_inclusive(w) ==
  IF w <= MAX_UNSIG_SMALL
    THEN FWord("SmallInt", as_SWord(w))
    ELSE FWord("BigInt", from_usize(w))

from_word(w) ==
  IF w < MAX_UNSIG_SMALL
    THEN FWord("SmallInt", as_SWord(w))
    ELSE FWord("BigInt", from_usize(w))

to_lterm(t) ==
  CASE t.tag = "Atom" -> make_atom(t.val)
    [] t.tag = "X_" -> make_xreg(t.val)
    [] t.tag = "Y_" -> make_yreg(t.val)
    [] t.tag = "FP_" -> make_fpreg(t.val)
    [] t.tag = "Label_" -> make_label(t.val)
    [] t.tag = "SmallInt" -> make_small_i(t.val)
    [] t.tag = "Int_" -> make_small_u(t.val)
    [] t.tag = "Nil" -> nil
    [] OTHER -> PanicLTerm

\* atom_tab[i].atom_index(): indexing past the end panics, and so does
\* atom_index() on a term that is no atom.
RECURSIVE maybe_resolve_atom_(_, _)
maybe_resolve_atom_(t, tab) ==
  CASE t.tag = "Atom_" ->
         IF t.val < Len(tab) /\ is_atom(tab[t.val + 1])
           THEN Some(FWord("Atom", atom_index(tab[t.val + 1])))
           ELSE Panic
    [] t.tag = "ExtList_" ->
         LET lst == t.elems
             rs == [k \in 1..Len(lst) |-> maybe_resolve_atom_(lst[k], tab)]
         IN  IF \E k \in 1..Len(lst) : rs[k] = Panic
               THEN Panic
               ELSE Some(FList("ExtList_",
                      [k \in 1..Len(lst) |->
                         IF rs[k] = None THEN lst[k] ELSE rs[k].val]))
    [] OTHER -> None

\* The loader starts with a decoded term, or with a raw word still to be
\* classified by from_word.
FTermInit ==
  /\ \/ ft \in FTerms /\ word_in = NoWord
     \/ ft = FUnit("Nil") /\ word_in \in Words
  /\ atom_tab \in AtomTabs
  /\ ft_op = "none"
  /\ lterm_out = nil
  /\ resolve_out = None
  /\ n_resolve = 0

\* FTerm::from_word(w)
FromWord ==
  /\ ft_op = "none"
  /\ word_in # NoWord
  /\ ft' = from_word(word_in)
  /\ ft_op' = "from_word"
  /\ UNCHANGED <<atom_tab, word_in, lterm_out, resolve_out, n_resolve>>
  /\ UNCHANGED <<atom_vars, disp_vars>>

\* ft.to_lterm()
ToLterm ==
  /\ word_in # NoWord => ft_op # "none"
  /\ lterm_out' = to_lterm(ft)
  /\ ft_op' = "to_lterm"
  /\ UNCHANGED <<ft, atom_tab, word_in, resolve_out, n_resolve>>
  /\ UNCHANGED <<atom_vars, disp_vars>>

\* ft.maybe_resolve_atom_(&atom_tab), the caller keeping the new term on Some
\* and the old one on None.
MaybeResolveAtom ==
  /\ word_in # NoWord => ft_op # "none"
  /\ resolve_out' = maybe_resolve_atom_(ft, atom_tab)
  /\ ft' = IF resolve_out' \in {None, Panic} THEN ft ELSE resolve_out'.val
  /\ n_resolve' = IF resolve_out' # Panic /\ n_resolve < MaxResolves
                    THEN n_resolve + 1 ELSE n_resolve
  /\ ft_op' = "resolve"
  /\ lterm_out' = nil
  /\ UNCHANGED <<atom_tab, word_in>>
  /\ UNCHANGED <<atom_vars, disp_vars>>

FTermNext == FromWord \/ ToLterm \/ MaybeResolveAtom

\* ------------------------------------------------------------------------
\* beam/opcodes/op_data.rs: opcode_move and opcode_make_fun2
\* ------------------------------------------------------------------------

\* Number of X registers and of Y stack slots of the running process.
NumRegs == 2
NumSlots == 1
\* Most operands a decoded instruction carries.
MaxArgs == 2
\* The operand cursor stops here.
MaxIp == 4

XRegs == {make_xreg(i) : i \in 0..(NumRegs - 1)}
YRegs == {make_yreg(i) : i \in 0..(NumSlots - 1)}
Literals == {make_small_i(42), make_atom(0)}

\* The words of the code stream that follow an instruction's operands.
Following(S) == {<<x, y>> : x \in S, y \in S}

\* The decoded instructions: an opcode, its operands (args), as many as the
\* opcode table tells the loader to decode, and the words that come after
\* them in the code stream (rest).
Decoded(op, S) == {xs \in SeqsUpTo(S, MaxArgs) : Len(xs) = arity_map[op]}
MoveInstrs ==
  {[op |-> "move", args |-> xs, rest |-> ws] :
     xs \in Decoded("move", Literals \cup XRegs \cup YRegs),
     ws \in Following({make_small_i(42), make_xreg(0)})}
MakeFun2Instrs ==
  {[op |-> "make_fun2", args |-> xs, rest |-> ws] :
     xs \in Decoded("make_fun2", {make_box(0), make_atom(0)}),
     ws \in Following({make_box(0), make_small_i(42)})}

\* The Context and the process heap a handler works on; base is where the
\* operands of the instruction being dispatched start.
Ctx ==
  [ip |-> ip, base |-> ip, regs |-> regs, stack |-> stack, fault |-> "none",
   result |-> "none"]

\* A panic in a handler halts the running process.
halt(c, why) == [c EXCEPT !.fault = why]

\* beam::opcodes::assert_arity: called with the opcode constant and the arity
\* the handler was written for; it holds when the opcode table gives the
\* opcode that many operands, which is the count the loader decoded.
assert_arity(op, arity) == arity_map[op] = arity

\* Context::fetch_term: the word under the cursor, verbatim, whichever
\* instruction it belongs to.
fetch_term(c, instr) == (instr.args \o instr.rest)[c.ip - c.base + 1]
advance(c) == [c EXCEPT !.ip = c.ip + 1]

\* Context::load: a register or stack slot reference reads the slot, any other
\* term stands for itself.
load(c, src) ==
  CASE src.tag = "xreg" -> c.regs[src.val]
    [] src.tag = "yreg" -> c.stack[src.val]
    [] OTHER -> src

\* Context::store: the value of src goes to the slot dst addresses.
store(c, src, dst) ==
  CASE dst.tag = "xreg" -> [c EXCEPT !.regs[dst.val] = load(c, src)]
    [] dst.tag = "yreg" -> [c EXCEPT !.stack[dst.val] = load(c, src)]
    [] OTHER -> halt(c, "bad_destination")

normal(c) == IF c.fault = "none" THEN [c EXCEPT !.result = "Normal"] ELSE c

\* Mutation: the arity is checked after the operands were fetched and stored.
opcode_move_late_check(c, instr) ==
  LET src == fetch_term(c, instr)
      c1 == advance(c)
      dst == fetch_term(c1, instr)
      c2 == advance(c1)
      c3 == store(c2, src, dst)
  IN  IF ~assert_arity("move", 2) THEN halt(c3, "arity_mismatch") ELSE normal(c3)

\* Mutation: the destination is fetched before the source.
opcode_move_swapped(c, instr) ==
  IF ~assert_arity("move", 2)
    THEN halt(c, "arity_mismatch")
    ELSE LET dst == fetch_term(c, instr)
             c1 == advance(c)
             src == fetch_term(c1, instr)
             c2 == advance(c1)
         IN  normal(store(c2, src, dst))

opcode_move(c, instr) ==
  IF ~assert_arity("move", 2)
    THEN halt(c, "arity_mismatch")
    ELSE LET src == fetch_term(c, instr)
             c1 == advance(c)
             dst == fetch_term(c1, instr)
             c2 == advance(c1)
         IN  normal(store(c2, src, dst))

\* fe_box.box_ptr() is taken of a boxed term only; panic!("boom") follows.
opcode_make_fun2(c, instr) ==
  IF ~assert_arity("make_fun2", 1)
    THEN halt(c, "arity_mismatch")
    ELSE LET fe_box == fetch_term(c, instr)
             c1 == advance(c)
         IN  IF fe_box.tag # "box" THEN halt(c1, "not_boxed") ELSE halt(c1, "boom")

\* The opcode tables a build can carry: one operand count per opcode.
OpNames == {"move", "make_fun2"}
ArityMaps == [OpNames -> 0..MaxArgs]
\* The table that agrees with what the handlers declare.
DeclaredArityMap == [op \in OpNames |-> IF op = "move" THEN 2 ELSE 1]

FreshProcess ==
  /\ ip = 0
  /\ regs = [i \in 0..(NumRegs - 1) |-> nil]
  /\ stack = [i \in 0..(NumSlots - 1) |-> nil]
  /\ fault = "none"
  /\ result = "none"
  /\ last = [op |-> "none", args |-> <<>>, rest |-> <<>>]

\* No instruction is dispatched while the other components run.
DispatchIdle == FreshProcess /\ arity_map = DeclaredArityMap

DispatchInit == FreshProcess /\ arity_map \in ArityMaps

\* What a handler leaves behind.
Dispatched(c, instr) ==
  /\ ip' = c.ip
  /\ regs' = c.regs
  /\ stack' = c.stack
  /\ fault' = c.fault
  /\ result' = c.result
  /\ last' = instr
  /\ arity_map' = arity_map

DispatchMove ==
  /\ fault = "none"
  /\ ip < MaxIp
  /\ \E instr \in MoveInstrs : Dispatched(opcode_move(Ctx, instr), instr)
  /\ UNCHANGED <<atom_vars, fterm_vars>>

DispatchMakeFun2 ==
  /\ fault = "none"
  /\ ip < MaxIp
  /\ \E instr \in MakeFun2Instrs : Dispatched(opcode_make_fun2(Ctx, instr), instr)
  /\ UNCHANGED <<atom_vars, fterm_vars>>

DispatchNext == DispatchMove \/ DispatchMakeFun2

\* ------------------------------------------------------------------------
\* Specifications
\* ------------------------------------------------------------------------

vars == <<atom_vars, fterm_vars, disp_vars>>

\* The loader holds nothing while the other components run.
FTermIdle ==
  /\ ft = FUnit("Nil")
  /\ atom_tab = <<>>
  /\ ft_op = "none"
  /\ word_in = NoWord
  /\ lterm_out = nil
  /\ resolve_out = None
  /\ n_resolve = 0

\* The atom table under concurrent from_str and to_str callers.
Init == AtomInit /\ FTermIdle /\ DispatchIdle
Spec == Init /\ [][AtomNext]_vars

\* The atom table under fair scheduling: a running thread is scheduled, and a
\* thread waiting for a mutex that is released again and again gets it.
LiveSpec == Init /\ [][LiveNext]_vars /\ \A p \in Procs : SF_vars(InCall(p))

\* The loader's FTerm operations on every enumerated term.
FTermSpecInit == AtomInit /\ FTermInit /\ DispatchIdle
FTermSpec == FTermSpecInit /\ [][FTermNext]_vars

\* One process dispatching move and make_fun2 instructions.
DispatchSpecInit == AtomInit /\ FTermIdle /\ DispatchInit
DispatchSpec == DispatchSpecInit /\ [][DispatchNext]_vars

\* ------------------------------------------------------------------------
\* Properties
\* ------------------------------------------------------------------------

ReturnedAtoms == {r[2] : r \in fs_results}
ReturnedTexts == {r[1] : r \in fs_results}
AssignedIndices == {atoms[t] : t \in DOMAIN atoms}
Quiescent == \A p \in Procs : pc[p] = "idle"

\* C1: from_str returns the same atom for two texts exactly when the texts are
\* equal, and to_str of an atom from_str returned for a text answers that
\* text (and does not run past the end of the vector).
C1_InternBijection ==
  /\ \A r1, r2 \in fs_results : (r1[2] = r2[2]) <=> (r1[1] = r2[1])
  /\ \A r \in fs_results, s \in ts_results : s[1] = r[2] => s[2] = r[1]
  /\ \A p \in Procs :
       (pc[p] = "ts_read" /\ a[p] \in ReturnedAtoms)
         => atom_index(a[p]) < Len(atoms_r)

C1_Witness ==
  \E r1, r2 \in fs_results :
    /\ r1[1] # r2[1]
    /\ \E s \in ts_results : s[1] = r1[2] /\ s[2] = r1[1]

\* C2: whatever the interleaving of the callers, once they have all returned
\* the table holds exactly one index per text interned, every call has
\* returned the index the table holds for its text, no two texts share an
\* index, and every text a call returned for is in the table.
C2_ConcurrentIntern ==
  /\ \A r1, r2 \in fs_results : r1[1] = r2[1] => r1[2] = r2[2]
  /\ Quiescent =>
       /\ DOMAIN atoms = ReturnedTexts
       /\ Cardinality(AssignedIndices) = Cardinality(ReturnedTexts)
       /\ Len(atoms_r) = Cardinality(ReturnedTexts)
       /\ \A r \in fs_results : r[2] = make_atom(atoms[r[1]])

\* Two callers are interning the same new text at once: one is between its
\* insertion and its push while the other waits for the forward map.
C2_Witness ==
  \E p, q \in Procs :
    /\ p # q
    /\ val[p] = val[q]
    /\ pc[p] = "fs_push"
    /\ pc[q] = "fs_lock"
    /\ Len(atoms_r) > 0

DenseIndices ==
  /\ AssignedIndices = 0..(Cardinality(DOMAIN atoms) - 1)
  /\ Len(order) = Cardinality(DOMAIN atoms)
  /\ \A n \in 1..Len(order) : atoms[order[n]] = n - 1

IndexStable ==
  /\ \A t \in DOMAIN atoms : t \in DOMAIN atoms' /\ atoms'[t] = atoms[t]
  /\ \A r \in fs_results : r \in fs_results' /\ atoms'[r[1]] = atom_index(r[2])

\* C3: the n-th distinct text inserted gets index n-1, the indices assigned
\* are always exactly 0..count-1, and an index assigned to or returned for a
\* text is never changed afterwards.
C3_DenseAppendOnly == []DenseIndices /\ [][IndexStable]_vars

\* The second distinct text has been inserted and a call has returned its
\* index, 1.
C3_Witness ==
  /\ Len(order) >= 2
  /\ \E r \in fs_results : atom_index(r[2]) = 1 /\ order[2] = r[1]

MutuallyConsistent ==
  /\ Len(atoms_r) = Cardinality(DOMAIN atoms)
  /\ \A t \in DOMAIN atoms :
       atoms[t] < Len(atoms_r) /\ vec_at(atoms_r, atoms[t]) = t
  /\ \A i \in 0..(Len(atoms_r) - 1) :
       vec_at(atoms_r, i) \in DOMAIN atoms /\ atoms[vec_at(atoms_r, i)] = i

\* A thread reads a map while holding its lock, or a lock is there to take.
Observable ==
  \/ lock_atoms = NoProc
  \/ lock_atoms_r = NoProc
  \/ \E p \in Procs : pc[p] \in {"fs_check", "fs_index", "ts_read"}

NothingRemoved ==
  /\ \A t \in DOMAIN atoms : t \in DOMAIN atoms' /\ atoms'[t] = atoms[t]
  /\ Len(atoms_r') >= Len(atoms_r)
  /\ \A i \in 0..(Len(atoms_r) - 1) : vec_at(atoms_r', i) = vec_at(atoms_r, i)

\* C9: whenever a caller can observe the table the forward and the reverse
\* map are inverse to each other and equally long, and no step removes or
\* renumbers an entry of either.
C9_MapsConsistent == [](Observable => MutuallyConsistent) /\ [][NothingRemoved]_vars

\* A to_str caller reads the vector, which holds an entry, while a from_str
\* caller that holds the forward map waits for the vector to add a new text.
C9_Witness ==
  /\ Len(atoms_r) >= 1
  /\ \E p, q \in Procs :
       /\ pc[p] = "ts_read"
       /\ pc[q] = "fs_lock_r"

LockOrder ==
  \A p \in Procs :
    /\ (lock_atoms_r = p /\ pc[p] \notin {"ts_read"}) => lock_atoms = p
    /\ pc[p] \in {"ts_lock", "ts_read"} => lock_atoms # p
    /\ pc[p] = "idle" => (lock_atoms # p /\ lock_atoms_r # p)

\* C10: from_str takes the reverse map's lock only while it holds the forward
\* map's, to_str never holds the forward map's, and under fair scheduling
\* every call that has started returns, holding no lock afterwards.
C10_NoDeadlock ==
  /\ []LockOrder
  /\ \A p \in Procs :
       (pc[p] # "idle")
         ~> (pc[p] = "idle" /\ lock_atoms # p /\ lock_atoms_r # p)

\* A to_str caller waits for the reverse map while a from_str caller holds
\* both locks.
C10_Witness ==
  \E p, q \in Procs :
    /\ pc[p] = "ts_lock"
    /\ pc[q] = "fs_push"
    /\ lock_atoms = q
    /\ lock_atoms_r = q

\* The variants enum FTerm documents as BEAM loader specials.
LoadTimeOnly == {"Label_", "Atom_", "Int_", "Lit_", "ExtList_", "AllocList_"}
\* The variants it documents as runtime values and runtime register indices.
RuntimeSafe ==
  {"Atom", "SmallInt", "BigInt", "Cons", "Nil", "Tuple", "Tuple0", "Float",
   "X_", "Y_", "FP_"}

\* C4: to_lterm panics on every load-time-only variant and returns a term
\* for runtime-safe variants only.  The code does not: it turns a Label_
\* into a label term and an Int_ into a small integer.
C4_PanicsOnEveryLoadTimeOnly ==
  ft_op = "to_lterm" =>
    /\ ft.tag \in LoadTimeOnly => lterm_out = PanicLTerm
    /\ lterm_out # PanicLTerm => ft.tag \in RuntimeSafe

\* C5: once a term has gone through maybe_resolve_atom_ (the caller keeping
\* the resolved term, or the original on None), another pass over the result
\* with the same table returns None.
C5_ResolveIdempotent ==
  (ft_op = "resolve" /\ n_resolve >= 2 /\ resolve_out # Panic)
    => resolve_out = None

\* C6: from_word(w) is SmallInt(w) for every word below MAX_UNSIG_SMALL and a
\* BigInt holding w for every word from MAX_UNSIG_SMALL on.
C6_FromWordBoundary ==
  ft_op = "from_word" =>
    /\ word_in < MAX_UNSIG_SMALL => ft = FWord("SmallInt", word_in)
    /\ word_in >= MAX_UNSIG_SMALL => ft = FWord("BigInt", word_in)

\* from_word has been given the limit itself and made a BigInt of it.
C6_Witness ==
  /\ ft_op = "from_word"
  /\ word_in = MAX_UNSIG_SMALL
  /\ ft = FWord("BigInt", MAX_UNSIG_SMALL)

\* A handler has run in this step: every handler moves the cursor or halts
\* the process.
DispatchStep == ip' # ip \/ fault' # fault

\* What a reader finds in the slot an operand addresses, a literal reading
\* as itself.
SlotValue(t) ==
  CASE t.tag = "xreg" -> regs[t.val]
    [] t.tag = "yreg" -> stack[t.val]
    [] OTHER -> t
Writable(t) == t.tag \in {"xreg", "yreg"}

MoveEffect ==
  LET src == last'.args[1]
      dst == last'.args[2]
  IN  /\ result' = "Normal"
      /\ fault' = "none"
      /\ ip' = ip + 2
      /\ dst.tag = "xreg" =>
           /\ regs'[dst.val] = SlotValue(src)
           /\ \A i \in DOMAIN regs : i # dst.val => regs'[i] = regs[i]
           /\ stack' = stack
      /\ dst.tag = "yreg" =>
           /\ stack'[dst.val] = SlotValue(src)
           /\ \A i \in DOMAIN stack : i # dst.val => stack'[i] = stack[i]
           /\ regs' = regs

\* C7: a move with its two operands, src a literal, a register or a stack
\* slot and dst a register or a stack slot, consumes exactly the two
\* operands, leaves the value of src in the slot dst addresses, changes no
\* other slot and returns Normal.
C7_MoveSemantics ==
  [][(DispatchStep /\ last'.op = "move" /\ Len(last'.args) = 2
        /\ Writable(last'.args[2])) => MoveEffect]_vars

\* Register 1 held an atom and a move has copied it to stack slot 0.
C7_Witness ==
  /\ last.op = "move"
  /\ last.args = <<make_xreg(1), make_yreg(0)>>
  /\ result = "Normal"
  /\ regs[1] = make_atom(0)
  /\ stack[0] = make_atom(0)

\* The arity each handler declares.
DeclaredArity(op) == IF op = "move" THEN 2 ELSE 1

\* C8: an instruction decoded with fewer operands than its handler declares
\* halts the process with an arity mismatch, the cursor where it was and no
\* register or stack slot written.
C8_ArityBeforeOperands ==
  [][(DispatchStep /\ Len(last'.args) < DeclaredArity(last'.op))
       => /\ fault' = "arity_mismatch"
          /\ ip' = ip
          /\ regs' = regs
          /\ stack' = stack]_vars

\* After a move that put an atom in register 0, a make_fun2 decoded without
\* its operand has halted the process, the cursor and the register as they
\* were.
C8_Witness ==
  /\ fault = "arity_mismatch"
  /\ last.op = "make_fun2"
  /\ last.args = <<>>
  /\ ip = 2
  /\ regs[0] = make_atom(0)

====
